---- MODULE Spec2Model ----
(***************************************************************************)
(* Model of shell-ai's streaming decoder (llm: processStream, callStream,  *)
(* Query), its request ledger (logger: NewRequestLogger, LogResponse,      *)
(* GetRecentResponses, CalculateCost, CreateLogEntry) and the `q logs`     *)
(* read surface (logs: runLogsCommand, printStatus).                       *)
(*                                                                         *)
(* Texts are sequences of characters; "NL" stands for the line break.      *)
(* The Go nil error is the empty string.                                   *)
(***************************************************************************)
EXTENDS Integers, Sequences, FiniteSets, TLC

VARIABLES
    logger,     \* the *RequestLogger held by the process (LLMClient.logger / log in runLogsCommand)
    client,     \* LLMClient.messages and the capacity of its backing array
    store,      \* rows of the responses table, in insertion (rowid) order
    clock,      \* the wall clock, in ticks
    obs,        \* what the caller of the last Query / LogResponse observed
    out,        \* what the last read operation (GetRecentResponses, printStatus) produced
    stream,     \* the response body handed to processStream
    dec         \* processStream's locals and its position in the body

vars == <<logger, client, store, clock, obs, out, stream, dec>>

\* ---------------------------------------------------------------- bounds
MaxLines == 4          \* lines in a response body (decoder specification)
MaxQueries == 2        \* Query calls per client
MaxClock == 3          \* the wall clock stops advancing here
TicksPerSecond == 2    \* sub-second resolution of time.Now()
MaxOps == 2            \* LogResponse calls in the ledger specification
MaxTokens == 3         \* small token counts of the cost specification

NoErr == ""
EmptyText == << >>

\* ---------------------------------------------------------------- types.go
Message(role, content) == [Role |-> role, Content |-> content]

Usage(p, c, t) == [PromptTokens |-> p, CompletionTokens |-> c, TotalTokens |-> t]

ZeroUsage == Usage(0, 0, 0)

\* One line of the body after strings.TrimSpace.  kind is
\*   "done"    the line "data: [DONE]"
\*   "other"   a line without the "data:" prefix (blank line, comment, event:)
\*   "badjson" "data:" followed by text that is not valid JSON
\*   "badtype" "data:" followed by JSON whose fields have the wrong type
\*   "chunk"   "data:" followed by a ResponseData object
Line(kind, id, usage, choices) ==
    [kind |-> kind, id |-> id, usage |-> usage, choices |-> choices]

Chunk(id, usage, choices) == Line("chunk", id, usage, choices)

DoneLine == Line("done", "", ZeroUsage, << >>)
OtherLine == Line("other", "", ZeroUsage, << >>)
BadJSONLine == Line("badjson", "", ZeroUsage, << >>)
BadTypeLine == Line("badtype", "", ZeroUsage, << >>)

HasPrefix(line) == line.kind \in {"done", "badjson", "badtype", "chunk"}

\* json.Unmarshal into a fresh ResponseData: an error for a syntax error or a
\* type mismatch, the decoded object otherwise.
Unmarshal(line) ==
    IF line.kind = "chunk"
    THEN [err |-> NoErr, ID |-> line.id, Usage |-> line.usage, Choices |-> line.choices]
    ELSE [err |-> "json: cannot unmarshal", ID |-> "", Usage |-> ZeroUsage, Choices |-> << >>]

\* strings.Count(content, "\n")
CountNL(content) == Cardinality({i \in 1..Len(content) : content[i] = "NL"})

\* ---------------------------------------------------------------- processStream
\* The locals of processStream; sink is the list of arguments StreamCallback
\* was invoked with, stop is set when the loop is left.
NewDecoder ==
    [counter |-> 0, totalData |-> EmptyText, usage |-> ZeroUsage,
     requestID |-> "", sink |-> << >>, sinkErrs |-> << >>, stop |-> FALSE, err |-> NoErr]

\* the identifier of every chunk overwrites the captured one
CaptureID_Last(requestID, id) ==
    IF id # "" THEN id ELSE requestID

\* if requestID == "" && responseData.ID != ""
CaptureID(requestID, id) ==
    IF requestID = "" /\ id # "" THEN id ELSE requestID

\* the usage of every chunk overwrites the tally, zero or not
CaptureUsage_Always(usage, u) == u

\* if responseData.Usage.TotalTokens > 0
CaptureUsage(usage, u) ==
    IF u.TotalTokens > 0 THEN u ELSE usage

\* if counter < 2 && strings.Count(content, "\n") > 0 { continue }
\* totalData += content; c.StreamCallback(totalData, nil); counter++
ProcessChoice_Retain(d, content) ==
    IF d.counter < 2 /\ CountNL(content) > 0
    THEN [d EXCEPT !.totalData = @ \o content]
    ELSE [d EXCEPT !.totalData = @ \o content,
                   !.sink = Append(@, d.totalData \o content),
                   !.sinkErrs = Append(@, NoErr),
                   !.counter = @ + 1]

\* the sink handed the fragment instead of the accumulated text
ProcessChoice_Delta(d, content) ==
    IF d.counter < 2 /\ CountNL(content) > 0
    THEN d
    ELSE [d EXCEPT !.totalData = @ \o content,
                   !.sink = Append(@, content),
                   !.sinkErrs = Append(@, NoErr),
                   !.counter = @ + 1]

ProcessChoice(d, content) ==
    IF d.counter < 2 /\ CountNL(content) > 0
    THEN d
    ELSE [d EXCEPT !.totalData = @ \o content,
                   !.sink = Append(@, d.totalData \o content),
                   !.sinkErrs = Append(@, NoErr),
                   !.counter = @ + 1]

\* err = json.Unmarshal(...); if err != nil { fmt.Println(...); continue }
OnParseError_Abort(d) == [d EXCEPT !.stop = TRUE]

OnParseError(d) == d

\* the read failed (EOF, timeout, connection reset): if err != nil { break }
OnReadError(d, readErr) == [d EXCEPT !.stop = TRUE]

\* the sentinel read as one more line to skip
OnSentinel_Continue(d) == d

\* if line == "data: [DONE]" { break }
OnSentinel(d) == [d EXCEPT !.stop = TRUE]

\* the check for an empty choices list moved before the id and usage capture
ProcessLine_ChoicesFirst(d, line) ==
    IF line.kind = "done" THEN OnSentinel(d)
    ELSE IF ~HasPrefix(line) THEN d
    ELSE LET responseData == Unmarshal(line) IN
         IF responseData.err # NoErr THEN OnParseError(d)
         ELSE IF Len(responseData.Choices) = 0 THEN d
         ELSE ProcessChoice([d EXCEPT !.requestID = CaptureID(@, responseData.ID),
                                      !.usage = CaptureUsage(@, responseData.Usage)],
                            responseData.Choices[1])

\* One iteration of the for loop on a line that was read.
ProcessLine(d, line) ==
    IF line.kind = "done" THEN OnSentinel(d)
    ELSE IF ~HasPrefix(line) THEN d
    ELSE LET responseData == Unmarshal(line) IN
         IF responseData.err # NoErr THEN OnParseError(d)
         ELSE LET d1 == [d EXCEPT !.requestID = CaptureID(@, responseData.ID),
                                  !.usage = CaptureUsage(@, responseData.Usage)]
              IN IF Len(responseData.Choices) = 0 THEN d1
                 ELSE ProcessChoice(d1, responseData.Choices[1])

\* The whole loop over a body: lines, then the error the reader ends with.
RECURSIVE DecodeFrom(_, _, _)
DecodeFrom(d, body, i) ==
    IF d.stop THEN d
    ELSE IF i > Len(body.lines) THEN OnReadError(d, body.end)
    ELSE DecodeFrom(ProcessLine(d, body.lines[i]), body, i + 1)

\* return totalData, usage, requestID, nil
processStream(body) ==
    LET d == DecodeFrom(NewDecoder, body, 1)
    IN [content |-> d.totalData, usage |-> d.usage, requestID |-> d.requestID,
        err |-> d.err, sink |-> d.sink]

\* ---------------------------------------------------------------- logger.go
\* modelPricing, in cents per million tokens
modelPricing ==
    [m \in {"gpt-4.1", "gpt-4.1-mini", "gpt-4o", "gpt-4o-mini",
             "gpt-4-turbo", "gpt-4", "gpt-3.5-turbo"} |->
        CASE m = "gpt-4.1"       -> [InputPerMillion |-> 250,  OutputPerMillion |-> 1000]
          [] m = "gpt-4.1-mini"  -> [InputPerMillion |-> 15,   OutputPerMillion |-> 60]
          [] m = "gpt-4o"        -> [InputPerMillion |-> 250,  OutputPerMillion |-> 1000]
          [] m = "gpt-4o-mini"   -> [InputPerMillion |-> 15,   OutputPerMillion |-> 60]
          [] m = "gpt-4-turbo"   -> [InputPerMillion |-> 1000, OutputPerMillion |-> 3000]
          [] m = "gpt-4"         -> [InputPerMillion |-> 3000, OutputPerMillion |-> 6000]
          [] m = "gpt-3.5-turbo" -> [InputPerMillion |-> 50,   OutputPerMillion |-> 150]]

\* the input and the output price applied to the wrong token count
CalculateCost_Swapped(model, promptTokens, completionTokens) ==
    IF model \notin DOMAIN modelPricing THEN 0
    ELSE promptTokens * modelPricing[model].OutputPerMillion
         + completionTokens * modelPricing[model].InputPerMillion

\* CalculateCost, in units of 1e-8 USD (tokens * cents-per-million)
CalculateCost(model, promptTokens, completionTokens) ==
    IF model \notin DOMAIN modelPricing THEN 0
    ELSE promptTokens * modelPricing[model].InputPerMillion
         + completionTokens * modelPricing[model].OutputPerMillion

\* The three things a caller of NewRequestLogger can end up holding; open is
\* false once the *sql.DB handle was closed.
NilLogger == [ptr |-> FALSE, enabled |-> FALSE, db |-> FALSE, open |-> FALSE]
DisabledLogger == [ptr |-> TRUE, enabled |-> FALSE, db |-> FALSE, open |-> FALSE]
ActiveLogger == [ptr |-> TRUE, enabled |-> TRUE, db |-> TRUE, open |-> TRUE]

\* NewRequestLogger: disableEnv is $SHELL_AI_DISABLE_LOGGING, storeOK is false
\* when the home directory, ~/.shell-ai or logs.db cannot be resolved or opened.
NewRequestLogger_NilWhenDisabled(disableEnv, storeOK) ==
    IF disableEnv # "" THEN [logger |-> NilLogger, err |-> NoErr]
    ELSE IF ~storeOK THEN [logger |-> NilLogger, err |-> "failed to open database"]
    ELSE [logger |-> ActiveLogger, err |-> NoErr]

NewRequestLogger(disableEnv, storeOK) ==
    IF disableEnv # "" THEN [logger |-> DisabledLogger, err |-> NoErr]
    ELSE IF ~storeOK THEN [logger |-> NilLogger, err |-> "failed to open database"]
    ELSE [logger |-> ActiveLogger, err |-> NoErr]

\* time.Time.Format(time.RFC3339): the wall clock cut to whole seconds
FormatRFC3339(t) == t \div TicksPerSecond

\* time.Parse(time.RFC3339, s)
ParseRFC3339(s) == s * TicksPerSecond

\* CreateLogEntry; now is time.Now().UTC()
CreateLogEntry(now, model, messages, response, usage, requestID, durationMs, err) ==
    [Timestamp |-> now, Model |-> model, Messages |-> messages, Response |-> response,
     PromptTokens |-> usage.PromptTokens, CompletionTokens |-> usage.CompletionTokens,
     TotalTokens |-> usage.TotalTokens,
     EstimatedCost |-> CalculateCost(model, usage.PromptTokens, usage.CompletionTokens),
     RequestID |-> requestID, DurationMs |-> durationMs, Error |-> err]

\* for _, msg := range entry.Messages: the content of the last message of a role
RECURSIVE LastOfRole(_, _, _)
LastOfRole(messages, role, i) ==
    IF i = 0 THEN EmptyText
    ELSE IF messages[i].Role = role THEN messages[i].Content
    ELSE LastOfRole(messages, role, i - 1)

\* The values LogResponse binds to the INSERT statement.
InsertRow(entry) ==
    [id |-> entry.RequestID, model |-> entry.Model,
     prompt |-> LastOfRole(entry.Messages, "user", Len(entry.Messages)),
     system |-> LastOfRole(entry.Messages, "system", Len(entry.Messages)),
     response |-> entry.Response, conversation_id |-> "NULL",
     duration_ms |-> entry.DurationMs,
     datetime_utc |-> FormatRFC3339(entry.Timestamp),
     input_tokens |-> entry.PromptTokens, output_tokens |-> entry.CompletionTokens,
     estimated_cost |-> entry.EstimatedCost]

\* id TEXT PRIMARY KEY
PrimaryKeyTaken(rows, id) == \E i \in 1..Len(rows) : rows[i].id = id

\* the row LogResponse's INSERT adds replaces the row of the same id
RECURSIVE ReplaceRow(_, _, _)
ReplaceRow(rows, row, i) ==
    IF i > Len(rows) THEN << >>
    ELSE <<IF rows[i].id = row.id THEN row ELSE rows[i]>> \o ReplaceRow(rows, row, i + 1)

LogResponse_Upsert(l, rows, entry) ==
    IF ~l.enabled \/ ~l.db THEN [rows |-> rows, err |-> NoErr]
    ELSE IF ~l.open THEN [rows |-> rows, err |-> "sql: database is closed"]
    ELSE IF PrimaryKeyTaken(rows, entry.RequestID)
         THEN [rows |-> ReplaceRow(rows, InsertRow(entry), 1), err |-> NoErr]
         ELSE [rows |-> Append(rows, InsertRow(entry)), err |-> NoErr]

LogResponse_NoGuard(l, rows, entry) ==
    IF PrimaryKeyTaken(rows, entry.RequestID)
    THEN [rows |-> rows, err |-> "UNIQUE constraint failed: responses.id"]
    ELSE [rows |-> Append(rows, InsertRow(entry)), err |-> NoErr]

\* LogResponse: the rows afterwards and the error returned
LogResponse(l, rows, entry) ==
    IF ~l.enabled \/ ~l.db THEN [rows |-> rows, err |-> NoErr]
    ELSE IF ~l.open THEN [rows |-> rows, err |-> "sql: database is closed"]
    ELSE IF PrimaryKeyTaken(rows, entry.RequestID)
         THEN [rows |-> rows, err |-> "UNIQUE constraint failed: responses.id"]
         ELSE [rows |-> Append(rows, InsertRow(entry)), err |-> NoErr]

\* rows.Scan into a fresh LogEntry, the messages rebuilt, the timestamp parsed
ScanRow(row) ==
    [Timestamp |-> ParseRFC3339(row.datetime_utc), Model |-> row.model,
     Messages |-> (IF row.system # EmptyText THEN <<Message("system", row.system)>> ELSE << >>)
                  \o (IF row.prompt # EmptyText THEN <<Message("user", row.prompt)>> ELSE << >>),
     Response |-> row.response,
     PromptTokens |-> row.input_tokens, CompletionTokens |-> row.output_tokens,
     TotalTokens |-> 0,
     EstimatedCost |-> row.estimated_cost,
     RequestID |-> row.id, DurationMs |-> row.duration_ms, Error |-> ""]

\* ORDER BY datetime_utc DESC: every order of the rows (as row numbers) the
\* store may produce; the order among equal datetime_utc values is its choice.
RECURSIVE DescOrdersOf(_, _)
DescOrdersOf(rows, left) ==
    IF left = {} THEN {<< >>}
    ELSE UNION {{<<i>> \o rest : rest \in DescOrdersOf(rows, left \ {i})} :
                  i \in {k \in left : \A j \in left :
                                          rows[k].datetime_utc >= rows[j].datetime_utc}}

DescOrders(rows) == DescOrdersOf(rows, 1..Len(rows))

\* LIMIT ?: a negative limit is no limit in SQLite
LimitCount(n, limit) == IF limit < 0 \/ limit > n THEN n ELSE limit

\* GetRecentResponses: the error it returns (l.db.Query on a closed handle)
GetRecentErr(l) ==
    IF l.enabled /\ l.db /\ ~l.open THEN "sql: database is closed" ELSE NoErr

\* GetRecentResponses: the entry lists it may return
GetRecentResponses(l, rows, limit) ==
    IF ~l.enabled \/ ~l.db THEN {<< >>}
    ELSE IF ~l.open THEN {<< >>}
    ELSE {[i \in 1..LimitCount(Len(rows), limit) |-> ScanRow(rows[p[i]])] : p \in DescOrders(rows)}

\* Close: the logger afterwards and the error returned
Close(l) ==
    IF l.db THEN [logger |-> [l EXCEPT !.open = FALSE], err |-> NoErr]
    ELSE [logger |-> l, err |-> NoErr]

\* GetDBPath: filepath.Join(homeDir, ".shell-ai", "logs.db")
GetDBPath(homeDir) == <<homeDir, ".shell-ai", "logs.db">>

\* ---------------------------------------------------------------- logs.go
RECURSIVE SumTotalTokens(_, _)
SumTotalTokens(entries, i) ==
    IF i = 0 THEN 0 ELSE entries[i].TotalTokens + SumTotalTokens(entries, i - 1)

RECURSIVE SumEstimatedCost(_, _)
SumEstimatedCost(entries, i) ==
    IF i = 0 THEN 0 ELSE entries[i].EstimatedCost + SumEstimatedCost(entries, i - 1)

\* modelCounts[entry.Model]++
ModelCounts(entries) ==
    [m \in {entries[i].Model : i \in 1..Len(entries)} |->
        Cardinality({i \in 1..Len(entries) : entries[i].Model = m})]

\* log.GetRecentResponses(1000000) // Get all entries
StatusScanLimit == 1000000

\* the limit flag's default
DefaultLimit == 3

\* printStatus, from the entries the scan returned: what it prints
\* (totals is false when only "Total requests: 0" is printed)
StatusReport(entries) ==
    IF Len(entries) = 0
    THEN [requests |-> 0, totals |-> FALSE, tokens |-> 0, cost |-> 0, byModel |-> << >>]
    ELSE [requests |-> Len(entries), totals |-> TRUE,
          tokens |-> SumTotalTokens(entries, Len(entries)),
          cost |-> SumEstimatedCost(entries, Len(entries)),
          byModel |-> ModelCounts(entries)]

printStatus(l, rows) ==
    {StatusReport(entries) : entries \in GetRecentResponses(l, rows, StatusScanLimit)}

\* ---------------------------------------------------------------- llm: LLMClient
\* append(s, x) when len(s) = cap(s) allocates a new array of the needed or
\* of an amortised (doubled) capacity; with spare capacity it writes in place.
AppendCaps(len, cap) ==
    IF len < cap THEN {cap}
    ELSE {len + 1, IF 2 * cap > len + 1 THEN 2 * cap ELSE len + 1}

\* NewLLMClient: messages: append([]Message(nil), config.Prompt...)
NewLLMClient(config) ==
    [config |-> config, messages |-> config.Prompt, cap |-> Len(config.Prompt)]

\* callStream: what the server did is outcome
\*   kind "transport": httpClient.Do failed;  kind "response": a response with
\*   a status code and a body
callStream(outcome) ==
    IF outcome.kind = "transport"
    THEN [message |-> Message("", EmptyText), usage |-> ZeroUsage, requestID |-> "",
          err |-> "failed to make the API request"]
    ELSE IF outcome.status # 200
    THEN [message |-> Message("", EmptyText), usage |-> ZeroUsage, requestID |-> "",
          err |-> "API request failed"]
    ELSE LET r == processStream(outcome.body)
         IN [message |-> Message("assistant", r.content), usage |-> r.usage,
             requestID |-> r.requestID, err |-> r.err]

\* messages := c.messages; messages = append(messages, Message{Role: "user", ...})
LocalMessages(c, query) == Append(c.messages, Message("user", query))

\* c.messages = append(c.messages, message)
AppendAnswer(c, message) == Append(c.messages, message)

\* The local slice as CreateLogEntry receives it on the success path: when
\* c.messages had spare capacity, both appends wrote the same array slot.
MessagesAtLog(c, query, message) ==
    IF Len(c.messages) < c.cap THEN Append(c.messages, message)
    ELSE LocalMessages(c, query)

\* if c.logger != nil { logEntry := ...; c.logger.LogResponse(logEntry) }
LogAttempt(l, rows, entry) ==
    IF ~l.ptr THEN [rows |-> rows, err |-> NoErr, called |-> FALSE]
    ELSE LET w == LogResponse(l, rows, entry)
         IN [rows |-> w.rows, err |-> w.err, called |-> TRUE]

\* what Query returns: ("", err) or (message.Content, nil); logErr only
\* reaches os.Stderr
QueryReturn_LogErr(content, err, logErr) ==
    IF err # NoErr THEN [answer |-> EmptyText, err |-> err]
    ELSE IF logErr # NoErr THEN [answer |-> EmptyText, err |-> logErr]
    ELSE [answer |-> content, err |-> NoErr]

QueryReturn(content, err, logErr) ==
    IF err # NoErr THEN [answer |-> EmptyText, err |-> err]
    ELSE [answer |-> content, err |-> NoErr]

\* the message callStream returned appended before the error is looked at
MessagesAfter_AppendFirst(c, message, err) == AppendAnswer(c, message)

\* c.messages when Query returns: if err != nil { ...; return "", err } comes
\* before c.messages = append(c.messages, message)
MessagesAfter(c, message, err) ==
    IF err # NoErr THEN c.messages ELSE AppendAnswer(c, message)

\* the entry stamped when the call began
StampedAt_Start(startTime, elapsed) == startTime

\* time.Now() inside CreateLogEntry, which Query calls once callStream has
\* returned: elapsed after startTime
StampedAt(startTime, elapsed) == startTime + elapsed

\* time.Since(startTime).Milliseconds()
Milliseconds(ticks) == (ticks * 1000) \div TicksPerSecond

\* ---------------------------------------------------------------- inputs
Sys == <<"sys">>
Example == <<"ex">>
Q1 == <<"q">>
Q2 == <<"q", "q">>
FA == <<"a">>
FB == <<"b">>
FNL == <<"NL">>
FBNL == <<"b", "NL">>

\* the text of the n-th query of a session: "q", "qq", ... (all different)
QueryText(n) == [i \in 1..n |-> "q"]

\* the lines a response body of the decoder specification is made of
DecLines ==
    {DoneLine, OtherLine, BadJSONLine, BadTypeLine,
     Chunk("", ZeroUsage, <<FA>>),
     Chunk("r2", ZeroUsage, <<FNL>>),
     Chunk("r1", ZeroUsage, <<FBNL>>),
     Chunk("r2", Usage(1, 1, 2), <<FB, FA>>),
     Chunk("r3", Usage(45, 12, 57), << >>)}

ReadErrors == {"EOF", "timeout"}

Body(lines, end) == [lines |-> lines, end |-> end]

DecBodies ==
    {Body(ls, e) : ls \in UNION {[1..n -> DecLines] : n \in 0..MaxLines}, e \in ReadErrors}

NoBody == Body(<< >>, "EOF")

\* the server behaviours a Query of the client specification may meet
BodyOK ==
    Body(<<Chunk("r1", ZeroUsage, <<FA>>), Chunk("", Usage(45, 12, 57), << >>), DoneLine>>, "EOF")
BodyNoID == Body(<<Chunk("", ZeroUsage, <<FB>>), DoneLine>>, "EOF")
BodyCut == Body(<<Chunk("r2", ZeroUsage, <<FA>>)>>, "timeout")

\* the ticks a network call may take
ElapsedTicks == {0, 1}

Outcome(kind, status, body) == [kind |-> kind, status |-> status, body |-> body]

Outcomes ==
    {Outcome("transport", 0, NoBody), Outcome("response", 500, NoBody),
     Outcome("response", 200, BodyOK), Outcome("response", 200, BodyNoID),
     Outcome("response", 200, BodyCut)}

Configs ==
    {[ModelName |-> "gpt-4.1-mini", Prompt |-> <<Message("system", Sys)>>],
     [ModelName |-> "gpt-4o",
      Prompt |-> <<Message("system", Sys), Message("user", Example)>>]}

\* a row an earlier run of the program left in logs.db
SeedRow ==
    [id |-> "r0", model |-> "gpt-4", prompt |-> <<"old">>, system |-> Sys,
     response |-> FA, conversation_id |-> "NULL", duration_ms |-> 0,
     datetime_utc |-> 0, input_tokens |-> 3, output_tokens |-> 2,
     estimated_cost |-> CalculateCost("gpt-4", 3, 2)]

SeedStores == {<< >>, <<SeedRow>>}

Loggers == {NewRequestLogger(e, ok).logger : e \in {"", "1"}, ok \in BOOLEAN}

NoEntry == CreateLogEntry(0, "", << >>, EmptyText, ZeroUsage, "", 0, NoErr)

\* nothing observed yet; base is the number of rows found in the store,
\* conv the conversation as the user has seen it
NoObs(base, conv) ==
    [op |-> "none", n |-> 0, base |-> base, failures |-> 0, conv |-> conv,
     query |-> EmptyText, outcome |-> Outcome("", 0, NoBody), cleanBefore |-> TRUE,
     pre |-> << >>, sent |-> << >>, expect |-> << >>, answer |-> EmptyText, err |-> NoErr,
     logErr |-> NoErr, logged |-> FALSE, entry |-> NoEntry,
     fresh |-> FALSE, latest |-> FALSE, maxTs |-> -1, env |-> ""]

NoOut ==
    [op |-> "none", limit |-> 0, entries |-> << >>, err |-> NoErr,
     report |-> StatusReport(<< >>), path |-> << >>]

DecoderAt(d, pos) == [d |-> d, pos |-> pos]

SawDone(body) == \E i \in 1..Len(body.lines) : body.lines[i].kind = "done"

\* ---------------------------------------------------------------- client specification
Init ==
    /\ logger \in Loggers
    /\ client \in {NewLLMClient(cfg) : cfg \in Configs}
    /\ store \in SeedStores
    /\ clock = 0
    /\ obs = NoObs(Len(store), client.messages)
    /\ out = NoOut
    /\ stream = NoBody
    /\ dec = DecoderAt(NewDecoder, 1)

\* LLMClient.Query(query) against a server that behaves as outcome and takes
\* elapsed ticks to do so
Query(query, outcome, elapsed) ==
    /\ obs.n < MaxQueries
    /\ clock + elapsed <= MaxClock
    /\ LET messages == LocalMessages(client, query)
           r == callStream(outcome)
           now == StampedAt(clock, elapsed)
           durationMs == Milliseconds(elapsed)
           failed == r.err # NoErr
           entry == IF failed
                    THEN CreateLogEntry(now, client.config.ModelName, messages, EmptyText,
                                        r.usage, r.requestID, durationMs, r.err)
                    ELSE CreateLogEntry(now, client.config.ModelName,
                                        MessagesAtLog(client, query, r.message),
                                        r.message.Content, r.usage, r.requestID,
                                        durationMs, NoErr)
           w == LogAttempt(logger, store, entry)
           ret == QueryReturn(r.message.Content, r.err, w.err)
       IN /\ clock' = clock + elapsed
          /\ store' = w.rows
          /\ IF failed
             THEN client' = [client EXCEPT !.messages = MessagesAfter(client, r.message, r.err)]
             ELSE \E newcap \in AppendCaps(Len(client.messages), client.cap) :
                     client' = [client EXCEPT !.messages = MessagesAfter(client, r.message, r.err),
                                              !.cap = newcap]
          /\ obs' = [obs EXCEPT !.op = "Query", !.n = @ + 1,
                                !.failures = IF failed THEN @ + 1 ELSE @,
                                !.conv = IF failed THEN @
                                         ELSE @ \o <<Message("user", query), r.message>>,
                                !.query = query, !.outcome = outcome,
                                !.cleanBefore = (obs.failures = 0),
                                !.pre = client.messages, !.sent = messages,
                                !.expect = Append(obs.conv, Message("user", query)),
                                !.answer = ret.answer, !.err = ret.err,
                                !.logErr = w.err, !.logged = w.called, !.entry = entry]
          /\ out' = NoOut
    /\ UNCHANGED <<logger, stream, dec>>

\* `q logs -n limit`: runLogsCommand's default branch
LogsRecent(limit) ==
    /\ logger.ptr
    /\ \E entries \in GetRecentResponses(logger, store, limit) :
          out' = [NoOut EXCEPT !.op = "recent", !.limit = limit, !.entries = entries]
    /\ UNCHANGED <<logger, client, store, clock, obs, stream, dec>>

\* `q logs --status`: runLogsCommand's statusFlag branch
LogsStatus ==
    /\ logger.ptr
    /\ \E report \in printStatus(logger, store) :
          out' = [NoOut EXCEPT !.op = "status", !.report = report]
    /\ UNCHANGED <<logger, client, store, clock, obs, stream, dec>>

Next ==
    \/ \E query \in {QueryText(obs.n + 1)}, outcome \in Outcomes, elapsed \in ElapsedTicks :
          Query(query, outcome, elapsed)
    \/ \E limit \in {1, DefaultLimit} : LogsRecent(limit)
    \/ LogsStatus

Spec == Init /\ [][Next]_vars

\* ---------------------------------------------------------------- decoder specification
\* processStream on one response body, a line at a time
InitDecode ==
    /\ logger = DisabledLogger
    /\ client = NewLLMClient([ModelName |-> "gpt-4.1-mini", Prompt |-> << >>])
    /\ store = << >>
    /\ clock = 0
    /\ obs = NoObs(0, << >>)
    /\ out = NoOut
    /\ stream \in DecBodies
    /\ dec = DecoderAt(NewDecoder, 1)

\* ReadString returned a line other than the sentinel
DecodeLine ==
    /\ ~dec.d.stop
    /\ dec.pos <= Len(stream.lines)
    /\ stream.lines[dec.pos].kind # "done"
    /\ dec' = DecoderAt(ProcessLine(dec.d, stream.lines[dec.pos]), dec.pos + 1)
    /\ UNCHANGED <<logger, client, store, clock, obs, out, stream>>

\* ReadString returned "data: [DONE]"
DecodeSentinel ==
    /\ ~dec.d.stop
    /\ dec.pos <= Len(stream.lines)
    /\ stream.lines[dec.pos].kind = "done"
    /\ dec' = DecoderAt(ProcessLine(dec.d, stream.lines[dec.pos]), dec.pos + 1)
    /\ UNCHANGED <<logger, client, store, clock, obs, out, stream>>

\* ReadString returned an error: the body ended or the read timed out
DecodeReadError ==
    /\ ~dec.d.stop
    /\ dec.pos > Len(stream.lines)
    /\ dec' = DecoderAt(OnReadError(dec.d, stream.end), dec.pos)
    /\ UNCHANGED <<logger, client, store, clock, obs, out, stream>>

NextDecode ==
    \/ DecodeLine
    \/ DecodeSentinel
    \/ DecodeReadError

SpecDecode == InitDecode /\ [][NextDecode]_vars

\* ---------------------------------------------------------------- ledger specification
\* The RequestLogger used directly: LogResponse and GetRecentResponses calls
\* in any order while the clock advances.
LedgerEntries(now) ==
    {CreateLogEntry(now, "gpt-4.1-mini", <<Message("system", Sys), Message("user", Q1)>>,
                    FA, Usage(45, 12, 57), id, 500, NoErr) : id \in {"r1", "r2"}}
    \cup
    {CreateLogEntry(now, "unknown-model", <<Message("user", Q2)>>,
                    EmptyText, ZeroUsage, id, 0, "API request failed") : id \in {"", "r1"}}

Limits == {-1, 0, 1, 2}

\* values of $SHELL_AI_DISABLE_LOGGING
OptOutValues == {"", "1", "false"}

InitLedger ==
    /\ store \in SeedStores
    /\ \E e \in OptOutValues, storeOK \in BOOLEAN :
          /\ e = "" => storeOK
          /\ logger = NewRequestLogger(e, storeOK).logger
          /\ obs = [NoObs(Len(store), << >>) EXCEPT
                       !.maxTs = IF store = << >> THEN -1 ELSE 0, !.env = e,
                       !.err = NewRequestLogger(e, storeOK).err]
    /\ client = NewLLMClient([ModelName |-> "gpt-4.1-mini", Prompt |-> << >>])
    /\ clock = 0
    /\ out = NoOut
    /\ stream = NoBody
    /\ dec = DecoderAt(NewDecoder, 1)

\* the wall clock advances
Tick ==
    /\ clock < MaxClock
    /\ clock' = clock + 1
    /\ UNCHANGED <<logger, client, store, obs, out, stream, dec>>

\* l.LogResponse(entry) for an entry stamped now; fresh and latest record
\* whether its id was unused and its timestamp later than every one persisted
LedgerLog(entry) ==
    /\ obs.n < MaxOps
    /\ LET w == LogResponse(logger, store, entry)
           inserted == Len(w.rows) > Len(store)
       IN /\ store' = w.rows
          /\ obs' = [obs EXCEPT !.op = "LogResponse", !.n = @ + 1, !.entry = entry,
                                !.err = w.err, !.logged = inserted,
                                !.fresh = ~PrimaryKeyTaken(store, entry.RequestID),
                                !.latest = entry.Timestamp > obs.maxTs,
                                !.maxTs = IF inserted /\ entry.Timestamp > @
                                          THEN entry.Timestamp ELSE @]
    /\ out' = NoOut
    /\ UNCHANGED <<logger, client, clock, stream, dec>>

\* l.GetRecentResponses(limit)
LedgerRecent(limit) ==
    /\ \E entries \in GetRecentResponses(logger, store, limit) :
          out' = [NoOut EXCEPT !.op = "recent", !.limit = limit, !.entries = entries,
                               !.err = GetRecentErr(logger)]
    /\ UNCHANGED <<logger, client, store, clock, obs, stream, dec>>

\* l.GetDBPath()
LedgerPath ==
    /\ out' = [NoOut EXCEPT !.op = "path", !.path = GetDBPath("~")]
    /\ UNCHANGED <<logger, client, store, clock, obs, stream, dec>>

\* l.Close()
LedgerClose ==
    /\ logger' = Close(logger).logger
    /\ out' = [NoOut EXCEPT !.op = "close", !.err = Close(logger).err]
    /\ UNCHANGED <<client, store, clock, obs, stream, dec>>

NextLedger ==
    \/ Tick
    \/ \E entry \in LedgerEntries(clock) : LedgerLog(entry)
    \/ \E limit \in Limits : LedgerRecent(limit)
    \/ LedgerClose
    \/ LedgerPath

SpecLedger == InitLedger /\ [][NextLedger]_vars

\* ---------------------------------------------------------------- cost specification
\* CreateLogEntry (and with it CalculateCost) applied to a model and token counts
CostModels == DOMAIN modelPricing \cup {"unknown-model"}

TokenCounts == 0..MaxTokens \cup {12, 45, 500, 1000}

InitCost ==
    /\ logger = DisabledLogger
    /\ client = NewLLMClient([ModelName |-> "gpt-4.1-mini", Prompt |-> << >>])
    /\ store = << >>
    /\ clock = 0
    /\ obs = NoObs(0, << >>)
    /\ out = NoOut
    /\ stream = NoBody
    /\ dec = DecoderAt(NewDecoder, 1)

BuildEntry(model, p, c) ==
    /\ obs' = [obs EXCEPT !.op = "CreateLogEntry",
                          !.entry = CreateLogEntry(clock, model, << >>, EmptyText,
                                                   Usage(p, c, p + c), "", 0, NoErr)]
    /\ UNCHANGED <<logger, client, store, clock, out, stream, dec>>

NextCost ==
    \E model \in CostModels, p \in TokenCounts, c \in TokenCounts : BuildEntry(model, p, c)

SpecCost == InitCost /\ [][NextCost]_vars

\* ---------------------------------------------------------------- claims: client
Failed(outcome) == outcome.kind = "transport" \/ outcome.status # 200

\* C1: with an active ledger, after n Query calls (successful or failed) the
\* responses store holds exactly n more entries than before, one per call.
C1_OneEntryPerQuery ==
    logger = ActiveLogger => Len(store) = obs.base + obs.n

\* C2: a Query that fails on a transport error or a non-2xx status returns an
\* error, and its entry, read back from the store, has a non-empty error
\* text and an empty response text.
C2_FailedEntryKeepsError ==
    (obs.op = "Query" /\ Failed(obs.outcome)) =>
        /\ obs.err # NoErr
        /\ (logger = ActiveLogger /\ obs.logErr = NoErr /\ out.op = "recent") =>
              \A i \in 1..Len(out.entries) :
                  out.entries[i].RequestID = obs.entry.RequestID =>
                      /\ out.entries[i].Error # ""
                      /\ out.entries[i].Response = EmptyText

\* C3: after successful queries q1..qk with answers a1..ak, the message list
\* sent by the next query is the configured prompt followed by
\* q1, a1, ..., qk, ak, q(k+1).
C3_PayloadCarriesHistory ==
    (obs.op = "Query" /\ obs.cleanBefore) => obs.sent = obs.expect

\* C4: the entry persisted for a Query call has its prompt field equal to the
\* query text of that call, at any position in a sequence of queries.
C4_PromptIsQueryText ==
    (obs.op = "Query" /\ logger = ActiveLogger /\ obs.logged /\ obs.logErr = NoErr) =>
        store[Len(store)].prompt = obs.query

\* C5: the answer and error Query returns and the conversation prefix it
\* leaves are fixed by the prefix before the call and the server's behaviour
\* alone, whatever the ledger is (active, disabled, absent) and whether or
\* not LogResponse failed.
C5_ResultIgnoresLedger ==
    obs.op = "Query" =>
        LET r == callStream(obs.outcome) IN
        /\ obs.err = r.err
        /\ obs.answer = (IF r.err # NoErr THEN EmptyText ELSE r.message.Content)
        /\ client.messages = (IF r.err # NoErr THEN obs.pre ELSE Append(obs.pre, r.message))

\* C5 witness: a Query succeeded although LogResponse failed on an id collision.
C5_Witness ==
    /\ obs.op = "Query" /\ logger = ActiveLogger
    /\ obs.logged /\ obs.logErr # NoErr
    /\ obs.err = NoErr /\ obs.answer # EmptyText

\* C6: when the read of the response body ends in a timeout before the
\* terminal sentinel was read, Query returns an error.
C6_ReadErrorFailsQuery ==
    (/\ obs.op = "Query"
     /\ ~Failed(obs.outcome)
     /\ ~SawDone(obs.outcome.body)
     /\ obs.outcome.body.end = "timeout") => obs.err # NoErr

\* ---------------------------------------------------------------- claims: decoder
\* the lines read so far
Consumed == SubSeq(stream.lines, 1, dec.pos - 1)

\* the lines up to, not including, the first sentinel
RECURSIVE BeforeSentinel(_, _)
BeforeSentinel(lines, i) ==
    IF i > Len(lines) \/ lines[i].kind = "done" THEN << >>
    ELSE <<lines[i]>> \o BeforeSentinel(lines, i + 1)

\* the first-choice fragments of the well-formed chunks among lines, in order
RECURSIVE Fragments(_, _)
Fragments(lines, i) ==
    IF i > Len(lines) THEN << >>
    ELSE (IF lines[i].kind = "chunk" /\ Len(lines[i].choices) > 0
          THEN <<lines[i].choices[1]>> ELSE << >>) \o Fragments(lines, i + 1)

StreamFragments == Fragments(BeforeSentinel(stream.lines, 1), 1)

RECURSIVE Concat(_, _)
Concat(texts, i) ==
    IF i > Len(texts) THEN EmptyText ELSE texts[i] \o Concat(texts, i + 1)

HasNL(text) == \E i \in 1..Len(text) : text[i] = "NL"

\* three fragments, a line break in the first and in the second, none in the third
ThreeFragmentCase ==
    /\ Len(StreamFragments) = 3
    /\ HasNL(StreamFragments[1]) /\ HasNL(StreamFragments[2])
    /\ ~HasNL(StreamFragments[3])

\* the fragments that are not withheld: a fragment is withheld when it holds a
\* line break and fewer than two fragments were forwarded before it
RECURSIVE Forwarded(_, _, _)
Forwarded(frags, i, sent) ==
    IF i > Len(frags) THEN << >>
    ELSE IF sent < 2 /\ HasNL(frags[i]) THEN Forwarded(frags, i + 1, sent)
    ELSE <<frags[i]>> \o Forwarded(frags, i + 1, sent + 1)

RECURSIVE RunLines(_, _, _)
RunLines(d, lines, i) ==
    IF d.stop \/ i > Len(lines) THEN d
    ELSE RunLines(ProcessLine(d, lines[i]), lines, i + 1)

Malformed(line) == line.kind \in {"badjson", "badtype"}

WithoutMalformed(lines) == SelectSeq(lines, LAMBDA l : ~Malformed(l))

\* what a decode has produced, apart from its position in the loop
Produced(d) == <<d.counter, d.totalData, d.usage, d.requestID, d.sink, d.err>>

\* C8: a prefixed line whose payload does not parse is skipped: text, usage,
\* id, counter and sink invocations are what they would be had the malformed
\* lines not been in the stream, at every point of the decode and in its
\* result, and the error returned is nil.
C8_MalformedSkipped ==
    /\ ~dec.d.stop =>
          Produced(dec.d) = Produced(RunLines(NewDecoder, WithoutMalformed(Consumed), 1))
    /\ dec.d.stop =>
          /\ dec.d.err = NoErr
          /\ Produced(dec.d) =
                Produced(DecodeFrom(NewDecoder,
                                    Body(WithoutMalformed(stream.lines), stream.end), 1))

\* C8 witness: a decode returned text after reading a line of invalid JSON
\* that had content lines before and after it.
C8_Witness ==
    /\ dec.d.stop
    /\ \E i, j, k \in 1..Len(Consumed) :
          /\ i < j /\ j < k
          /\ Consumed[j].kind = "badjson"
          /\ Consumed[i].kind = "chunk" /\ Len(Consumed[i].choices) > 0
          /\ Consumed[k].kind = "chunk" /\ Len(Consumed[k].choices) > 0
    /\ Len(dec.d.sink) >= 2

\* ---------------------------------------------------------------- claims: ledger
\* C9: persisting an entry with an unused id and a timestamp later than
\* every stored one, then calling recent(1), returns one entry with the same
\* id, model, prompt, completion and total token counts and estimated cost,
\* and the same timestamp at second granularity.
C9_RoundTrip ==
    (/\ obs.op = "LogResponse" /\ logger = ActiveLogger
     /\ obs.fresh /\ obs.latest
     /\ out.op = "recent" /\ out.limit = 1) =>
        /\ Len(out.entries) = 1
        /\ out.entries[1].RequestID = obs.entry.RequestID
        /\ out.entries[1].Model = obs.entry.Model
        /\ out.entries[1].PromptTokens = obs.entry.PromptTokens
        /\ out.entries[1].CompletionTokens = obs.entry.CompletionTokens
        /\ out.entries[1].TotalTokens = obs.entry.TotalTokens
        /\ out.entries[1].EstimatedCost = obs.entry.EstimatedCost
        /\ FormatRFC3339(out.entries[1].Timestamp) = FormatRFC3339(obs.entry.Timestamp)

RECURSIVE SumRowTokens(_, _)
SumRowTokens(rows, i) ==
    IF i = 0 THEN 0
    ELSE rows[i].input_tokens + rows[i].output_tokens + SumRowTokens(rows, i - 1)

RECURSIVE SumRowCost(_, _)
SumRowCost(rows, i) ==
    IF i = 0 THEN 0 ELSE rows[i].estimated_cost + SumRowCost(rows, i - 1)

RECURSIVE SumCounts(_, _)
SumCounts(f, models) ==
    IF models = {} THEN 0
    ELSE LET m == CHOOSE x \in models : TRUE
         IN f[m] + SumCounts(f, models \ {m})

\* C10: the status report shows a request count equal to the number of
\* persisted entries, a token total equal to the sum of input plus output
\* tokens over them, a cost equal to the sum of their estimated costs, and
\* per-model counts that add up to the request count.
C10_StatusTotals ==
    (out.op = "status" /\ logger = ActiveLogger) =>
        /\ out.report.requests = Len(store)
        /\ out.report.totals =>
              /\ out.report.tokens = SumRowTokens(store, Len(store))
              /\ out.report.cost = SumRowCost(store, Len(store))
              /\ SumCounts(out.report.byModel, DOMAIN out.report.byModel)
                    = out.report.requests

\* C11: on an active ledger, persist inserts exactly one row when the
\* entry's id is not in the store; when a row with that id exists it returns
\* an error and leaves the store as it was.
C11_PersistInsertsOrRejects ==
    [][(obs'.n = obs.n + 1 /\ logger = ActiveLogger) =>
          IF PrimaryKeyTaken(store, obs'.entry.RequestID)
          THEN obs'.err # NoErr /\ store' = store
          ELSE /\ obs'.err = NoErr
               /\ Len(store') = Len(store) + 1
               /\ SubSeq(store', 1, Len(store)) = store
               /\ store'[Len(store')].id = obs'.entry.RequestID]_vars

\* C11 witness: a persist was rejected because its id was already stored.
C11_Witness ==
    /\ obs.op = "LogResponse" /\ logger = ActiveLogger
    /\ ~obs.fresh /\ obs.err # NoErr
    /\ Len(store) >= 1

\* the ids of the entries a read returned
ReturnedIDs(entries) == {entries[i].RequestID : i \in 1..Len(entries)}

\* C12: for every store state and every integer limit, recent(limit) returns
\* at most limit entries (none for a negative limit), in non-increasing
\* timestamp order, each with a timestamp not earlier than that of any
\* stored entry it did not return; on an empty store it returns an empty
\* sequence and no error.
C12_RecentBounded ==
    (out.op = "recent" /\ logger = ActiveLogger) =>
        /\ out.err = NoErr
        /\ Len(out.entries) <= (IF out.limit < 0 THEN 0 ELSE out.limit)
        /\ \A i, j \in 1..Len(out.entries) :
              i < j => out.entries[i].Timestamp >= out.entries[j].Timestamp
        /\ \A i \in 1..Len(out.entries), k \in 1..Len(store) :
              store[k].id \notin ReturnedIDs(out.entries) =>
                  out.entries[i].Timestamp >= ParseRFC3339(store[k].datetime_utc)
        /\ store = << >> => out.entries = << >>

C14_CostFormula ==
    obs.op = "CreateLogEntry" =>
        LET e == obs.entry IN
        /\ e.EstimatedCost = CalculateCost(e.Model, e.PromptTokens, e.CompletionTokens)
        /\ e.Model \in DOMAIN modelPricing =>
              e.EstimatedCost = e.PromptTokens * modelPricing[e.Model].InputPerMillion
                                + e.CompletionTokens * modelPricing[e.Model].OutputPerMillion
        /\ e.Model \notin DOMAIN modelPricing => e.EstimatedCost = 0
        /\ (e.Model = "gpt-4.1" /\ e.PromptTokens = 1000 /\ e.CompletionTokens = 500) =>
              e.EstimatedCost = 750000
        /\ (e.Model = "gpt-4.1-mini" /\ e.PromptTokens = 45 /\ e.CompletionTokens = 12) =>
              e.EstimatedCost = 1395

\* C14 witness: the entry for gpt-4.1-mini with 45 prompt and 12 completion
\* tokens was built and costs 0.00001395 USD.
C14_Witness ==
    /\ obs.op = "CreateLogEntry"
    /\ obs.entry.Model = "gpt-4.1-mini"
    /\ obs.entry.PromptTokens = 45 /\ obs.entry.CompletionTokens = 12
    /\ obs.entry.EstimatedCost = 1395

AtFragment ==
    /\ ~dec.d.stop
    /\ dec.pos <= Len(stream.lines)
    /\ stream.lines[dec.pos].kind = "chunk"
    /\ Len(stream.lines[dec.pos].choices) > 0

\* C16: at most the first two content fragments can be withheld: reading a
\* chunk whose first-choice fragment is the third or a later one of the
\* stream invokes the sink once more, with the text accumulated so far,
\* whether or not the fragment holds a line break and whether or not the
\* earlier fragments were withheld.
C16_ThirdOnwardForwarded ==
    [][(AtFragment /\ Len(Fragments(Consumed, 1)) >= 2 /\ dec'.pos = dec.pos + 1) =>
          /\ Len(dec'.d.sink) = Len(dec.d.sink) + 1
          /\ dec'.d.sink[Len(dec'.d.sink)] = dec'.d.totalData]_vars

\* the sentinel is among the lines read so far
SentinelRead == \E i \in 1..Len(Consumed) : Consumed[i].kind = "done"

\* C17: once the sentinel line has been read the decode has stopped without
\* an error, the sentinel is the last line that was consumed, text, usage,
\* request id, counter and sink invocations are those produced by the lines
\* before the sentinel, and no further step changes the decoder, even when
\* content-bearing lines follow the sentinel in the stream.
C17_SentinelStops ==
    /\ [](SentinelRead =>
            /\ dec.d.stop /\ dec.d.err = NoErr
            /\ Consumed[Len(Consumed)].kind = "done"
            /\ \A i \in 1..(Len(Consumed) - 1) : Consumed[i].kind # "done"
            /\ Produced(dec.d) =
                  Produced(RunLines(NewDecoder, BeforeSentinel(stream.lines, 1), 1)))
    /\ [][SentinelRead => dec' = dec]_vars

\* C17 witness: the decode stopped at a sentinel that has a content-bearing
\* chunk before it and another one after it in the stream.
C17_Witness ==
    /\ dec.d.stop
    /\ SentinelRead
    /\ Len(dec.d.sink) >= 1
    /\ \E j \in dec.pos..Len(stream.lines) :
          stream.lines[j].kind = "chunk" /\ Len(stream.lines[j].choices) > 0

\* the well-formed chunks read so far, the sentinel and what follows left out
ChunksRead == SelectSeq(BeforeSentinel(Consumed, 1), LAMBDA l : l.kind = "chunk")

Max(S) == CHOOSE m \in S : \A n \in S : n <= m

Min(S) == CHOOSE m \in S : \A n \in S : m <= n

\* the usage sub-record of the last chunk whose total is greater than zero
LastNonZeroUsage(chunks) ==
    LET S == {i \in 1..Len(chunks) : chunks[i].usage.TotalTokens > 0}
    IN IF S = {} THEN ZeroUsage ELSE chunks[Max(S)].usage

\* C18: the usage tally is the usage sub-record of the last well-formed chunk
\* before the sentinel whose total is greater than zero (a later chunk with
\* total zero does not reset it), at every point of the decode and in its
\* result; it is all zeros when no chunk has a total greater than zero, and
\* the decode then still returns success.
C18_LastNonZeroUsageWins ==
    /\ dec.d.usage = LastNonZeroUsage(ChunksRead)
    /\ (\A i \in 1..Len(ChunksRead) : ChunksRead[i].usage.TotalTokens = 0) =>
          dec.d.usage = ZeroUsage
    /\ (dec.d.stop /\ dec.d.usage = ZeroUsage) => dec.d.err = NoErr

\* C18 witness: the decode stopped at the sentinel after two chunks with
\* different non-zero usage and then a chunk with zero usage, and returned
\* the usage of the second.
C18_Witness ==
    /\ dec.d.stop /\ SentinelRead
    /\ Len(ChunksRead) = 3
    /\ ChunksRead[1].usage.TotalTokens > 0
    /\ ChunksRead[2].usage.TotalTokens > 0
    /\ ChunksRead[1].usage # ChunksRead[2].usage
    /\ ChunksRead[3].usage = ZeroUsage
    /\ dec.d.usage = ChunksRead[2].usage

\* the identifier of the first chunk that carries a non-empty one
FirstID(chunks) ==
    LET S == {i \in 1..Len(chunks) : chunks[i].id # ""}
    IN IF S = {} THEN "" ELSE chunks[Min(S)].id

\* C19: the request id is the identifier of the first well-formed chunk that
\* carries a non-empty one, it is empty while no chunk carried one, and once
\* set it never changes, whatever identifiers later chunks carry.
C19_FirstIDWins ==
    /\ [](dec.d.requestID = FirstID(ChunksRead))
    /\ [][dec.d.requestID # "" => dec'.d.requestID = dec.d.requestID]_vars

\* C19 witness: the decode stopped with the id of its first chunk after a
\* later chunk carried a different non-empty id.
C19_Witness ==
    /\ dec.d.stop
    /\ Len(ChunksRead) >= 2
    /\ ChunksRead[1].id # ""
    /\ ChunksRead[2].id # "" /\ ChunksRead[2].id # ChunksRead[1].id
    /\ dec.d.requestID = ChunksRead[1].id

\* the line the decoder is about to read is a well-formed chunk with no choices
AtNoChoices ==
    /\ ~dec.d.stop
    /\ dec.pos <= Len(stream.lines)
    /\ stream.lines[dec.pos].kind = "chunk"
    /\ Len(stream.lines[dec.pos].choices) = 0

\* C20: reading a well-formed chunk with no choices leaves the accumulated
\* text, the fragment counter and the sink invocations as they were, and
\* still captures its identifier when none was captured before and its
\* usage sub-record when its total is greater than zero.
C20_NoChoicesStillCaptured ==
    [][(AtNoChoices /\ dec'.pos = dec.pos + 1) =>
          LET chunk == stream.lines[dec.pos] IN
          /\ dec'.d.totalData = dec.d.totalData
          /\ dec'.d.counter = dec.d.counter
          /\ dec'.d.sink = dec.d.sink
          /\ ~dec'.d.stop /\ dec'.d.err = NoErr
          /\ dec'.d.requestID =
                (IF dec.d.requestID = "" THEN chunk.id ELSE dec.d.requestID)
          /\ dec'.d.usage =
                (IF chunk.usage.TotalTokens > 0 THEN chunk.usage ELSE dec.d.usage)]_vars

\* C20 witness: after a forwarded fragment of a chunk without identifier or
\* usage, a chunk with no choices was read and gave the decode its request
\* id and its usage, the text and the sink staying as they were.
C20_Witness ==
    /\ Len(Consumed) = 2
    /\ Consumed[1].kind = "chunk" /\ Consumed[1].id = "" /\ Len(Consumed[1].choices) > 0
    /\ Consumed[2].kind = "chunk" /\ Len(Consumed[2].choices) = 0
    /\ Consumed[2].id # "" /\ Consumed[2].usage.TotalTokens > 0
    /\ dec.d.requestID = Consumed[2].id
    /\ dec.d.usage = Consumed[2].usage
    /\ Len(dec.d.sink) = 1 /\ dec.d.totalData = Consumed[1].choices[1]

\* the argument of the last sink invocation, empty before the first
LastSinkText(d) == IF d.sink = << >> THEN EmptyText ELSE d.sink[Len(d.sink)]

\* C21: every sink invocation carries a nil error and the full accumulated
\* text: each invocation's argument is the previous one's extended by the
\* fragment just forwarded, and the text of the decode, at every point and
\* in its result, is the argument of the last invocation (empty when the
\* sink was never invoked).
C21_SinkGetsAccumulatedText ==
    /\ [](/\ Len(dec.d.sinkErrs) = Len(dec.d.sink)
          /\ \A i \in 1..Len(dec.d.sinkErrs) : dec.d.sinkErrs[i] = NoErr
          /\ dec.d.totalData = LastSinkText(dec.d))
    /\ [][dec'.d.sink # dec.d.sink =>
             /\ AtFragment
             /\ dec'.d.sink = Append(dec.d.sink,
                                     LastSinkText(dec.d) \o stream.lines[dec.pos].choices[1])]_vars

\* C21 witness: the decode returned after two sink invocations, the second
\* with the first one's text and a further fragment, which is the text
\* returned.
C21_Witness ==
    /\ dec.d.stop
    /\ Len(dec.d.sink) = 2
    /\ Len(dec.d.sink[1]) >= 1
    /\ Len(dec.d.sink[2]) > Len(dec.d.sink[1])
    /\ SubSeq(dec.d.sink[2], 1, Len(dec.d.sink[1])) = dec.d.sink[1]
    /\ dec.d.totalData = dec.d.sink[2]

\* C22: the ledger is append-only: no step of persist (successful or
\* failing), recent, path or close removes a row or changes a field of a row
\* already in the store, a step adds at most one row, and only a persist
\* adds one.
C22_AppendOnly ==
    [][/\ Len(store') >= Len(store)
       /\ Len(store') <= Len(store) + 1
       /\ SubSeq(store', 1, Len(store)) = store
       /\ Len(store') = Len(store) + 1 => obs'.n = obs.n + 1]_vars

\* C22 witness: a store of two rows after a successful and a failing
\* persist, read back by recent.
C22_Witness ==
    /\ Len(store) >= 2
    /\ obs.n = 2 /\ obs.op = "LogResponse" /\ obs.err # NoErr
    /\ out.op = "recent" /\ Len(out.entries) >= 2

\* C23: with one thread and a wall clock that does not go back, the
\* timestamps of the persisted rows are non-decreasing in insertion order;
\* the entry of a query is stamped when its stream has terminated or failed,
\* not before, and a row it adds is in the store when the query returns.
C23_TimestampsNonDecreasing ==
    /\ [](\A i, j \in 1..Len(store) : i < j => store[i].datetime_utc <= store[j].datetime_utc)
    /\ [][obs'.n = obs.n + 1 =>
             /\ clock' >= clock
             /\ obs'.entry.Timestamp = clock'
             /\ Len(store') > Len(store) =>
                   /\ store'[Len(store')].datetime_utc = FormatRFC3339(clock')
                   /\ \A i \in 1..Len(store) :
                         store[i].datetime_utc <= store'[Len(store')].datetime_utc]_vars

\* C23 witness: two queries each persisted a row, the second at a later
\* second than the first.
C23_Witness ==
    /\ obs.op = "Query" /\ obs.n = 2 /\ obs.logged /\ obs.logErr = NoErr
    /\ Len(store) = obs.base + 2
    /\ store[Len(store) - 1].datetime_utc < store[Len(store)].datetime_utc
    /\ store[Len(store)].datetime_utc = FormatRFC3339(clock)

\* C24: a Query that returns an error leaves the conversation prefix as it
\* was: neither its user message nor an assistant message is added, and the
\* next query starts from the prefix the failed one started from and sends
\* that prefix followed by its own user message.
C24_FailedQueryKeepsPrefix ==
    /\ []((obs.op = "Query" /\ obs.err # NoErr) =>
             /\ Failed(obs.outcome)
             /\ client.messages = obs.pre)
    /\ [][(obs.op = "Query" /\ obs.err # NoErr /\ obs'.n = obs.n + 1) =>
             /\ obs'.pre = obs.pre
             /\ obs'.sent = Append(obs.pre, Message("user", obs'.query))]_vars

\* C24 witness: a query that got an answer came right after a failed one and
\* sent the prefix the failed one had found, followed by its own text.
C24_Witness ==
    /\ obs.op = "Query" /\ obs.n = 2 /\ obs.failures = 1
    /\ obs.err = NoErr /\ obs.answer # EmptyText
    /\ obs.sent = Append(obs.pre, Message("user", obs.query))
    /\ Len(obs.pre) >= 1
    /\ client.messages = Append(obs.pre, Message("assistant", obs.answer))

====
